---- MODULE Spec2Model ----
(***************************************************************************)
(* A model of scripts/send_batch.py: the filter predicates, the record     *)
(* selection with its idempotency gate, and the sequential dispatch loop   *)
(* with its write-back to the data store.                                  *)
(*                                                                         *)
(* Python values are records [t, s, pad]: t is the type tag ("none", "str", *)
(* "int"); the text is s, a sequence of one-character strings, followed by *)
(* pad filler characters (a long text is held by its length, not          *)
(* character by character). An int is held as its decimal text, so that    *)
(* values beyond 2^31 can be handled.                                      *)
(***************************************************************************)
EXTENDS Integers, Sequences, FiniteSets, TLC

\* ------------------------------------------------------------------------
\* Python values and the string operations the code uses
\* ------------------------------------------------------------------------

FillChar == "x"

SetMin(S) == CHOOSE x \in S : \A y \in S : x <= y

SetMax(S) == CHOOSE x \in S : \A y \in S : x >= y

PyNone == [t |-> "none", s |-> <<>>, pad |-> 0]

\* a text value, in its one representation: the trailing filler characters
\* are counted in pad
PyStr(chars) ==
    LET other == {i \in 1..Len(chars) : chars[i] # FillChar}
        n == IF other = {} THEN 0 ELSE SetMax(other)
    IN  [t |-> "str", s |-> SubSeq(chars, 1, n), pad |-> Len(chars) - n]

PyInt(chars) == [t |-> "int", s |-> chars, pad |-> 0]

DigitChars == <<"0", "1", "2", "3", "4", "5", "6", "7", "8", "9">>

UpperChars == <<"A", "B", "C", "D", "E", "F", "G", "H", "I", "J", "K", "L", "M",
                "N", "O", "P", "Q", "R", "S", "T", "U", "V", "W", "X", "Y", "Z">>

LowerChars == <<"a", "b", "c", "d", "e", "f", "g", "h", "i", "j", "k", "l", "m",
                "n", "o", "p", "q", "r", "s", "t", "u", "v", "w", "x", "y", "z">>

IsDigit(c) == \E i \in 1..10 : DigitChars[i] = c

DigitVal(c) == (CHOOSE i \in 1..10 : DigitChars[i] = c) - 1

\* bool(value): None, '' and 0 are falsy
Truthy(v) ==
    CASE v.t = "none" -> FALSE
      [] v.t = "str"  -> v.s # <<>> \/ v.pad > 0
      [] OTHER        -> v.s # <<"0">>

\* str(value)
PyToStr(v) ==
    IF v.t = "none" THEN <<"N", "o", "n", "e">>
    ELSE v.s \o [k \in 1..v.pad |-> FillChar]

\* s.lower()
LowerChar(c) ==
    IF \E i \in 1..26 : UpperChars[i] = c
    THEN LowerChars[CHOOSE i \in 1..26 : UpperChars[i] = c]
    ELSE c

Lower(s) == [i \in 1..Len(s) |-> LowerChar(s[i])]

\* s.strip()
Strip(s) ==
    LET keep == {i \in 1..Len(s) : s[i] # " "}
    IN  IF keep = {} THEN <<>> ELSE SubSeq(s, SetMin(keep), SetMax(keep))

\* sub in s
Contains(sub, s) ==
    \E i \in 1..(Len(s) - Len(sub) + 1) : SubSeq(s, i, i + Len(sub) - 1) = sub

\* s.startswith(p)
StartsWith(s, p) == Len(p) <= Len(s) /\ SubSeq(s, 1, Len(p)) = p

\* s.endswith(p)
EndsWith(s, p) == Len(p) <= Len(s) /\ SubSeq(s, Len(s) - Len(p) + 1, Len(s)) = p

\* s.isdigit()
IsDigitStr(s) == s # <<>> /\ \A i \in 1..Len(s) : IsDigit(s[i])

\* ------------------------------------------------------------------------
\* Numbers: [ok, neg, mag], mag the decimal digits without leading zeros
\* (zero is the empty magnitude), compared exactly
\* ------------------------------------------------------------------------

NumError == [ok |-> FALSE, neg |-> FALSE, mag |-> <<>>]

DropZeros(d) ==
    LET nz == {i \in 1..Len(d) : d[i] # 0}
    IN  IF nz = {} THEN <<>> ELSE SubSeq(d, SetMin(nz), Len(d))

MkNum(neg, chars) ==
    LET mag == DropZeros([i \in 1..Len(chars) |-> DigitVal(chars[i])])
    IN  [ok |-> TRUE, neg |-> neg /\ mag # <<>>, mag |-> mag]

\* float(text): surrounding blanks stripped, an optional sign, then digits;
\* anything else is a ValueError (the values drawn here use no '.', 'e', '_',
\* 'inf' or 'nan' forms)
ParseNumber(chars) ==
    LET body == Strip(chars)
        signed == body # <<>> /\ body[1] \in {"-", "+"}
        digs == IF signed THEN Tail(body) ELSE body
    IN  IF IsDigitStr(digs) THEN MkNum(signed /\ body[1] = "-", digs) ELSE NumError

\* float(value) for a value that is not None
ToFloat(v) == IF v.t = "none" THEN NumError ELSE ParseNumber(PyToStr(v))

MagLess(x, y) ==
    \/ Len(x) < Len(y)
    \/ /\ Len(x) = Len(y)
       /\ \E i \in 1..Len(x) : x[i] < y[i] /\ \A j \in 1..(i - 1) : x[j] = y[j]

NumLess(a, b) ==
    CASE a.neg /\ ~b.neg -> TRUE
      [] ~a.neg /\ b.neg -> FALSE
      [] a.neg /\ b.neg  -> MagLess(b.mag, a.mag)
      [] OTHER           -> MagLess(a.mag, b.mag)

\* ------------------------------------------------------------------------
\* Dates: a date is its proleptic Gregorian ordinal (0001-01-01 is day 1);
\* a parse gives [ok, raised, ord], raised marking an exception that the
\* function does not catch
\* ------------------------------------------------------------------------

DateNone == [ok |-> FALSE, raised |-> FALSE, ord |-> 0]

DateRaised == [ok |-> FALSE, raised |-> TRUE, ord |-> 0]

DateOf(n) == [ok |-> TRUE, raised |-> FALSE, ord |-> n]

IsLeap(y) == y % 4 = 0 /\ (y % 100 # 0 \/ y % 400 = 0)

DaysInMonth(y, m) ==
    CASE m \in {4, 6, 9, 11} -> 30
      [] m = 2 -> IF IsLeap(y) THEN 29 ELSE 28
      [] OTHER -> 31

RECURSIVE DaysBeforeMonth(_, _)
DaysBeforeMonth(y, m) ==
    IF m <= 1 THEN 0 ELSE DaysBeforeMonth(y, m - 1) + DaysInMonth(y, m - 1)

DaysBeforeYear(y) ==
    (y - 1) * 365 + ((y - 1) \div 4) - ((y - 1) \div 100) + ((y - 1) \div 400)

\* date(y, m, d).toordinal()
YmdToOrd(y, m, d) == DaysBeforeYear(y) + DaysBeforeMonth(y, m) + d

\* --- datetime.strptime(text, fmt).date() ---
\* fmt is a sequence of tokens: a directive ("%Y", "%m", ...) or a literal
\* character; a blank in the format matches one or more blanks.

StrpFail == [ok |-> FALSE, y |-> 0, m |-> 0, d |-> 0]

FmtIsoDate == <<"%Y", "-", "%m", "-", "%d">>

FmtFrSlash == <<"%d", "/", "%m", "/", "%Y">>

FmtFrDash == <<"%d", "-", "%m", "-", "%Y">>

FmtTime == <<"%H", ":", "%M", ":", "%S">>

DateFormats ==
    << FmtIsoDate,
       FmtFrSlash,
       FmtFrDash,
       FmtIsoDate \o <<" ">> \o FmtTime,
       FmtFrSlash \o <<" ">> \o FmtTime,
       FmtIsoDate \o <<"T">> \o FmtTime,
       FmtIsoDate \o <<"T">> \o FmtTime \o <<"Z">> >>

\* the two-digit values a directive accepts, and its least one-digit value
TwoDigitRange(tok) ==
    CASE tok = "%m" -> 1..12
      [] tok = "%d" -> 1..31
      [] tok = "%H" -> 0..23
      [] OTHER      -> 0..59

OneDigitMin(tok) == IF tok \in {"%m", "%d"} THEN 1 ELSE 0

StrpSet(acc, tok, v) ==
    CASE tok = "%Y" -> [acc EXCEPT !.y = v]
      [] tok = "%m" -> [acc EXCEPT !.m = v]
      [] tok = "%d" -> [acc EXCEPT !.d = v]
      [] OTHER      -> acc

DigitsAt(s, pos, n) ==
    pos + n - 1 <= Len(s) /\ \A i \in pos..(pos + n - 1) : IsDigit(s[i])

RECURSIVE NumberAt(_, _, _)
NumberAt(s, pos, n) ==
    IF n = 0 THEN 0
    ELSE NumberAt(s, pos, n - 1) * 10 + DigitVal(s[pos + n - 1])

RECURSIVE SkipBlanks(_, _)
SkipBlanks(s, pos) ==
    IF pos <= Len(s) /\ s[pos] = " " THEN SkipBlanks(s, pos + 1) ELSE pos

RECURSIVE StrpMatch(_, _, _, _, _)
StrpMatch(s, pos, fmt, k, acc) ==
    IF k > Len(fmt)
    THEN IF pos = Len(s) + 1 THEN acc ELSE StrpFail
    ELSE
      LET tok == fmt[k] IN
      CASE tok = "%Y" ->
             IF DigitsAt(s, pos, 4)
             THEN StrpMatch(s, pos + 4, fmt, k + 1, StrpSet(acc, tok, NumberAt(s, pos, 4)))
             ELSE StrpFail
        [] tok \in {"%m", "%d", "%H", "%M", "%S"} ->
             LET two == DigitsAt(s, pos, 2) /\ NumberAt(s, pos, 2) \in TwoDigitRange(tok)
                 one == DigitsAt(s, pos, 1) /\ NumberAt(s, pos, 1) >= OneDigitMin(tok)
                 r2 == IF two
                       THEN StrpMatch(s, pos + 2, fmt, k + 1,
                                      StrpSet(acc, tok, NumberAt(s, pos, 2)))
                       ELSE StrpFail
             IN  IF r2.ok THEN r2
                 ELSE IF one
                      THEN StrpMatch(s, pos + 1, fmt, k + 1,
                                     StrpSet(acc, tok, NumberAt(s, pos, 1)))
                      ELSE StrpFail
        [] tok = " " ->
             IF pos <= Len(s) /\ s[pos] = " "
             THEN StrpMatch(s, SkipBlanks(s, pos), fmt, k + 1, acc)
             ELSE StrpFail
        [] OTHER ->
             IF pos <= Len(s) /\ s[pos] = tok
             THEN StrpMatch(s, pos + 1, fmt, k + 1, acc)
             ELSE StrpFail

\* strptime raises ValueError (DateNone here) when the text does not match
\* or names no calendar day
CalendarDate(r) ==
    IF r.ok /\ r.y >= 1 /\ r.d <= DaysInMonth(r.y, r.m)
    THEN DateOf(YmdToOrd(r.y, r.m, r.d))
    ELSE DateNone

Strptime(s, fmt) ==
    CalendarDate(StrpMatch(s, 1, fmt, 1, [ok |-> TRUE, y |-> 0, m |-> 0, d |-> 0]))

\* --- datetime.fromtimestamp(ts).date(), for a local time zone of UTC ---

TenPow10 == <<1, 0, 0, 0, 0, 0, 0, 0, 0, 0, 0>>

TwoPow63 == <<9, 2, 2, 3, 3, 7, 2, 0, 3, 6, 8, 5, 4, 7, 7, 5, 8, 0, 8>>

\* seconds of 10000-01-01, and of 0001-01-02 as a magnitude below zero
\* (fromtimestamp probes one day earlier for the fold and fails below it)
SecsYear10000 == <<2, 5, 3, 4, 0, 2, 3, 0, 0, 8, 0, 0>>

SecsYear1 == <<6, 2, 1, 3, 5, 5, 1, 0, 4, 0, 0>>

SecondsPerDay == 86400

EpochOrdinal == 719163

RECURSIVE DivRem(_, _, _, _)
\* long division of the digits d by n: <<quotient, remainder>>
DivRem(d, n, q, r) ==
    IF d = <<>> THEN <<q, r>>
    ELSE LET cur == r * 10 + Head(d)
         IN  DivRem(Tail(d), n, q * 10 + (cur \div n), cur % n)

\* the result is "date" (with ord), "caught" (ValueError or OSError, which
\* parse_date_value passes over) or "overflow" (OverflowError, which it
\* does not catch)
\* lines 80-83: above 1e10 the value is in milliseconds
Seconds(num) ==
    IF ~num.neg /\ MagLess(TenPow10, num.mag)
    THEN SubSeq(num.mag, 1, Len(num.mag) - 3)
    ELSE num.mag

DayOf(neg, secs, qr) ==
    CASE ~MagLess(secs, TwoPow63) ->
           [kind |-> "overflow", ord |-> 0]
      [] ~neg /\ MagLess(secs, SecsYear10000) ->
           [kind |-> "date", ord |-> EpochOrdinal + qr[1]]
      [] neg /\ ~MagLess(SecsYear1, secs) ->
           [kind |-> "date",
            ord |-> EpochOrdinal - qr[1] - (IF qr[2] > 0 THEN 1 ELSE 0)]
      [] OTHER ->
           [kind |-> "caught", ord |-> 0]

DayOfSeconds(neg, secs) == DayOf(neg, secs, DivRem(secs, SecondsPerDay, 0, 0))

FromTimestamp(num) == DayOfSeconds(num.neg, Seconds(num))

\* --- re.search(r'(\d{4}-\d{2}-\d{2})', text) ---

IsoPatternAt(s, i) ==
    /\ i + 9 <= Len(s)
    /\ DigitsAt(s, i, 4) /\ s[i + 4] = "-"
    /\ DigitsAt(s, i + 5, 2) /\ s[i + 7] = "-"
    /\ DigitsAt(s, i + 8, 2)

RECURSIVE TryFormats(_, _)
TryFormats(s, k) ==
    IF k > Len(DateFormats) THEN DateNone
    ELSE LET r == Strptime(s, DateFormats[k])
         IN  IF r.ok THEN r ELSE TryFormats(s, k + 1)

\* lines 121-128: the first ISO date found inside the text
SearchIso(s, hits) ==
    IF hits # {}
    THEN Strptime(SubSeq(s, SetMin(hits), SetMin(hits) + 9), FmtIsoDate)
    ELSE DateNone

FirstOk(byFormat, bySearch) == IF byFormat.ok THEN byFormat ELSE bySearch

ParseDateText(s) ==
    FirstOk(TryFormats(s, 1), SearchIso(s, {i \in 1..Len(s) : IsoPatternAt(s, i)}))

NotTimestamp == [kind |-> "caught", ord |-> 0]

\* lines 76-86: a number is a Unix timestamp
NumberStamp(value) ==
    IF value.t = "int" THEN FromTimestamp(ToFloat(value)) ELSE NotTimestamp

\* lines 93-101: so is a text of digits
DigitStamp(date_str) ==
    IF IsDigitStr(date_str) THEN FromTimestamp(ParseNumber(date_str)) ELSE NotTimestamp

\* the order of the attempts of parse_date_value, given what each found
ParseOrder(value, date_str, asNumber, asDigits) ==
    CASE ~Truthy(value)             -> DateNone
      [] asNumber.kind = "date"     -> DateOf(asNumber.ord)
      [] asNumber.kind = "overflow" -> DateRaised
      [] date_str = <<>>            -> DateNone
      [] asDigits.kind = "date"     -> DateOf(asDigits.ord)
      [] asDigits.kind = "overflow" -> DateRaised
      [] OTHER                      -> ParseDateText(date_str)

ParseStripped(value, date_str) ==
    ParseOrder(value, date_str, NumberStamp(value), DigitStamp(date_str))

parse_date_value(value) == ParseStripped(value, Strip(PyToStr(value)))

\* ------------------------------------------------------------------------
\* The filter predicates
\* ------------------------------------------------------------------------

\* value.split('|')
RECURSIVE SplitBar(_)
SplitBar(s) ==
    LET bars == {i \in 1..Len(s) : s[i] = "|"}
    IN  IF bars = {} THEN <<s>>
        ELSE <<SubSeq(s, 1, SetMin(bars) - 1)>>
             \o SplitBar(SubSeq(s, SetMin(bars) + 1, Len(s)))

\* parse_date_value lets an OverflowError escape, and check_date_filter
\* catches only ValueError and TypeError
check_date_filter_raises(field_value, operator, filter_value) ==
    Truthy(filter_value) /\ parse_date_value(field_value).raised

\* datetime.strptime(filter_value, '%Y-%m-%d'): a TypeError for an operand
\* that is not text, a ValueError for text that is no ISO date
OperandDate(filter_value) ==
    IF filter_value.t = "str" THEN Strptime(PyToStr(filter_value), FmtIsoDate)
    ELSE DateNone

\* lines 196-207: the operand of date_between is two ISO dates around '|'
Between(field_date, start_date, end_date) ==
    /\ start_date.ok /\ end_date.ok
    /\ start_date.ord <= field_date.ord
    /\ field_date.ord <= end_date.ord

DateBetween(field_date, filter_value, dates) ==
    /\ filter_value.t = "str"
    /\ Len(dates) = 2
    /\ Between(field_date, Strptime(dates[1], FmtIsoDate), Strptime(dates[2], FmtIsoDate))

\* lines 184-213, given the field's date and the operand's
DateCompare(field_date, operator, filter_value, compare_date) ==
    CASE ~Truthy(filter_value) -> TRUE
      [] ~field_date.ok -> FALSE
      [] operator = "date_before" ->
           compare_date.ok /\ field_date.ord < compare_date.ord
      [] operator = "date_after" ->
           compare_date.ok /\ field_date.ord > compare_date.ord
      [] operator = "date_on" ->
           compare_date.ok /\ field_date.ord = compare_date.ord
      [] operator = "date_between" ->
           DateBetween(field_date, filter_value, SplitBar(PyToStr(filter_value)))
      [] OTHER -> FALSE

check_date_filter(field_value, operator, filter_value) ==
    DateCompare(parse_date_value(field_value), operator, filter_value,
                OperandDate(filter_value))

IsBlank(field_value) == field_value.t = "none" \/ Strip(PyToStr(field_value)) = <<>>

\* faulty variant: an unparseable text counts as zero
FloatOrZeroLenient(v) ==
    IF Truthy(v) /\ ToFloat(v).ok THEN ToFloat(v) ELSE MkNum(FALSE, <<"0">>)

\* float(x or 0)
FloatOrZero(v) == IF Truthy(v) THEN ToFloat(v) ELSE MkNum(FALSE, <<"0">>)

\* lines 252-271: float() of both sides, a ValueError making the test false
NumberCompare(operator, a, b) ==
    /\ a.ok /\ b.ok
    /\ CASE operator = "greater_than"  -> NumLess(b, a)
          [] operator = "less_than"     -> NumLess(a, b)
          [] operator = "greater_equal" -> ~NumLess(a, b)
          [] OTHER                      -> ~NumLess(b, a)

\* lines 240-251: the comparisons of the lowered texts
TextCompare(operator, field_str, value_str) ==
    CASE operator = "equals"       -> field_str = value_str
      [] operator = "not_equals"   -> field_str # value_str
      [] operator = "contains"     -> Contains(value_str, field_str)
      [] operator = "not_contains" -> ~Contains(value_str, field_str)
      [] operator = "starts_with"  -> StartsWith(field_str, value_str)
      [] OTHER                     -> EndsWith(field_str, value_str)

\* str(field_value).lower() if field_value is not None else ''
FieldStr(field_value) ==
    IF field_value.t # "none" THEN Lower(PyToStr(field_value)) ELSE <<>>

\* str(value).lower() if value else ''
ValueStr(value) == IF Truthy(value) THEN Lower(PyToStr(value)) ELSE <<>>

test_filter(field_value, operator, value) ==
    CASE operator = "empty" -> IsBlank(field_value)
      [] operator = "not_empty" -> ~IsBlank(field_value)
      [] ~Truthy(value) -> TRUE
      [] operator \in {"equals", "not_equals", "contains", "not_contains",
                       "starts_with", "ends_with"} ->
           TextCompare(operator, FieldStr(field_value), ValueStr(value))
      [] operator \in {"greater_than", "less_than", "greater_equal", "less_equal"} ->
           NumberCompare(operator, FloatOrZero(field_value), FloatOrZero(value))
      [] OTHER -> TRUE

\* the operator names drawn by the model, and operator.startswith('date_')
\* tabulated over them
RecognizedOperators ==
    {"empty", "not_empty", "equals", "not_equals", "contains", "not_contains",
     "starts_with", "ends_with", "greater_than", "less_than", "greater_equal",
     "less_equal", "date_before", "date_after", "date_on", "date_between"}

UnknownOperators == {"matches", "equal", "date_within", "date_"}

OperatorNames == RecognizedOperators \cup UnknownOperators

HasDatePrefix(operator) ==
    operator \in {"date_before", "date_after", "date_on", "date_between",
                  "date_within", "date_"}

\* fields.get(column)
FieldGet(fields, column) == IF column \in DOMAIN fields THEN fields[column] ELSE PyNone

\* lines 304-308: the predicate family is chosen by the name prefix
EvalFilter(field_value, operator, value) ==
    IF HasDatePrefix(operator)
    THEN check_date_filter(field_value, operator, value)
    ELSE test_filter(field_value, operator, value)

EvalFilterRaises(field_value, operator, value) ==
    HasDatePrefix(operator) /\ check_date_filter_raises(field_value, operator, value)

RecordMatches(record, filters, filter_logic) ==
    LET filter_results ==
            [k \in 1..Len(filters) |->
                EvalFilter(FieldGet(record.fields, filters[k].column),
                           filters[k].operator, filters[k].value)]
    IN  IF filter_logic = "OR"
        THEN \E k \in 1..Len(filters) : filter_results[k]
        ELSE \A k \in 1..Len(filters) : filter_results[k]

\* faulty variant: the return of the records for an empty filter list is missing
apply_filters_no_passthrough(records, filters, filter_logic) ==
    LET Keep(record) == RecordMatches(record, filters, filter_logic)
    IN  SelectSeq(records, Keep)

apply_filters(records, filters, filter_logic) ==
    IF filters = <<>> THEN records
    ELSE LET Keep(record) == RecordMatches(record, filters, filter_logic)
         IN  SelectSeq(records, Keep)

apply_filters_raises(records, filters) ==
    \E r \in 1..Len(records), k \in 1..Len(filters) :
        EvalFilterRaises(FieldGet(records[r].fields, filters[k].column),
                         filters[k].operator, filters[k].value)

\* ------------------------------------------------------------------------
\* The data store, the configuration and the runs
\* ------------------------------------------------------------------------

NumRecords == 2

MaxRuns == 2

ErrorTextLimit == 500

RecordIds == 1..NumRecords

Text_success == <<"s", "u", "c", "c", "e", "s", "s">>

Text_failure == <<"f", "a", "i", "l", "u", "r", "e">>

\* a numeric field too large for a time_t even after the division by 1000
HugeNumber == [i \in 1..23 |-> "9"]

DossierOf(id) == PyStr(<<"4", DigitChars[id + 1]>>)

\* the rows the data store may hold before the first run
RowKinds == {"fresh", "sent", "nokey", "huge", "text"}

InitialRow(id, kind) ==
    [dossier_id |-> IF kind = "nokey" THEN PyStr(<<>>) ELSE DossierOf(id),
     sync_mail  |-> IF kind = "sent" THEN PyStr(Text_success) ELSE PyStr(<<>>),
     sync_date  |-> PyNone,
     sync_error |-> PyStr(<<>>),
     amount     |-> CASE kind = "huge" -> PyInt(HugeNumber)
                      [] kind = "text" -> PyStr(<<"a", "b", "c">>)
                      [] OTHER         -> PyInt(<<"1", "2", "0">>)]

FilterAmount ==
    [column |-> "amount", operator |-> "greater_than", value |-> PyStr(<<"1", "0", "0">>)]

FilterSent ==
    [column |-> "sync_mail", operator |-> "equals", value |-> PyStr(Text_success)]

FilterDate ==
    [column |-> "amount", operator |-> "date_after",
     value |-> PyStr(<<"1", "9", "6", "9", "-", "1", "2", "-", "3", "1">>)]

\* config['filters'] and config['filter_logic'] of the configurations drawn
FilterConfigs ==
    { [filters |-> <<>>, filter_logic |-> "AND"],
      [filters |-> <<FilterAmount>>, filter_logic |-> "AND"],
      [filters |-> <<FilterAmount, FilterSent>>, filter_logic |-> "AND"],
      [filters |-> <<FilterAmount, FilterSent>>, filter_logic |-> "OR"],
      [filters |-> <<FilterDate>>, filter_logic |-> "AND"] }

\* what can be wrong with a run's configuration and secrets
Faults ==
    {"none", "config_missing", "config_malformed", "no_ds_token", "no_grist_token",
     "field_missing"}

\* the messaging service's answers: success, a reported error with its text,
\* or a 200 response whose body has "data": null (send_message then raises)
ShortError == <<"T", "i", "m", "e", "o", "u", "t">>

LongError == <<"E", "r", "r", "e", "u", "r", " ">> \o [k \in 1..ErrorTextLimit |-> FillChar]

SendResponses ==
    { [kind |-> "success", error |-> PyNone],
      [kind |-> "error", error |-> PyStr(ShortError)],
      [kind |-> "error", error |-> PyStr(LongError)],
      [kind |-> "malformed", error |-> PyNone] }

\* the data store's answers to a PATCH: a JSON object, an empty (null) body,
\* or an error (the row then keeps its fields)
UpdateResponses == {"ok", "empty", "error"}

EmptyResults ==
    [total_records |-> 0, success_count |-> 0, error_count |-> 0, details |-> <<>>]

VARIABLES
    store,       \* the data store's table: record id -> fields
    config,      \* the configuration file's filters and filter logic
    env,         \* the run's environment: fault, DRY_RUN, FORCE_SEND
    runs,        \* runs started so far (the clock of datetime.now())
    pc,          \* where the running process is
    sender,      \* GitHubActionSender's dry_run and force_send
    records,     \* send_batch's list of records to process
    i,           \* the loop's position in records (0 before the loop)
    results,     \* the results dictionary of send_batch
    calls,       \* the calls made to the collaborators in this run, in order
    outcomes,    \* what send_message_to_record returned, in order, in this run
    artifacts,   \* the result files written in this run
    store0,      \* the data store as it was when the run started
    okSends,     \* history: successful send_message calls per record, all runs
    acked,       \* history: a successful send's write-back was stored
    sentAfterAck, \* history: send_message was called for an acked record
    forced       \* history: some run had FORCE_SEND set

vars == <<store, config, env, runs, pc, sender, records, i, results, calls,
          outcomes, artifacts, store0, okSends, acked, sentAfterAck, forced>>

\* datetime.now().isoformat(): the clock is the number of the run
NowText ==
    <<"2", "0", "2", "4", "-", "0", "1", "-", "0", DigitChars[runs + 1],
      "T", "1", "0", ":", "0", "0", ":", "0", "0">>

Init ==
    /\ \E kinds \in [RecordIds -> RowKinds] :
          store = [id \in RecordIds |-> InitialRow(id, kinds[id])]
    /\ config \in FilterConfigs
    /\ env = [fault |-> "none", dry_run |-> FALSE, force_send |-> FALSE]
    /\ runs = 0
    /\ pc = "idle"
    /\ sender = [dry_run |-> FALSE, force_send |-> FALSE]
    /\ records = <<>>
    /\ i = 0
    /\ results = EmptyResults
    /\ calls = <<>>
    /\ outcomes = <<>>
    /\ artifacts = <<>>
    /\ store0 = store
    /\ okSends = [id \in RecordIds |-> 0]
    /\ acked = [id \in RecordIds |-> FALSE]
    /\ sentAfterAck = [id \in RecordIds |-> FALSE]
    /\ forced = FALSE

\* the workflow starts the script: main() runs with this run's environment
Launch ==
    /\ pc \in {"idle", "done", "exited"}
    /\ runs < MaxRuns
    /\ \E fault \in Faults, dry \in BOOLEAN, force \in BOOLEAN :
          /\ fault # "none" => ~dry /\ ~force
          /\ env' = [fault |-> fault, dry_run |-> dry, force_send |-> force]
          /\ forced' = (forced \/ force)
    /\ runs' = runs + 1
    /\ pc' = "init"
    /\ sender' = [dry_run |-> FALSE, force_send |-> FALSE]
    /\ records' = <<>>
    /\ i' = 0
    /\ results' = EmptyResults
    /\ calls' = <<>>
    /\ outcomes' = <<>>
    /\ artifacts' = <<>>
    /\ store0' = store
    /\ UNCHANGED <<store, config, okSends, acked, sentAfterAck>>

\* GitHubActionSender.__init__: sys.exit(1) on a missing or malformed
\* configuration file or a missing token
InitFails ==
    env.fault \in {"config_missing", "config_malformed", "no_ds_token", "no_grist_token"}

SenderInit ==
    /\ pc = "init"
    /\ IF InitFails
       THEN pc' = "exited" /\ UNCHANGED sender
       ELSE /\ pc' = "send_batch"
            /\ sender' = [dry_run |-> env.dry_run, force_send |-> env.force_send]
    /\ UNCHANGED <<store, config, env, runs, records, i, results, calls, outcomes,
                   artifacts, store0, okSends, acked, sentAfterAck, forced>>

\* faulty variant: the validation accepts any configuration
validate_config_always == TRUE

\* validate_config: every required field is present and not empty
validate_config == env.fault # "field_missing"

\* send_batch up to the call of get_records_to_process
ValidateConfig ==
    /\ pc = "send_batch"
    /\ pc' = IF validate_config THEN "select" ELSE "exited"
    /\ UNCHANGED <<store, config, env, runs, sender, records, i, results, calls,
                   outcomes, artifacts, store0, okSends, acked, sentAfterAck, forced>>

\* faulty variant: the gate forgets the stored status
PassesGateNoStatus(record, force_send) == Truthy(record.fields.dossier_id)

\* faulty variant: the force flag also lets a record without dossier_id through
PassesGateForceFirst(record, force_send) ==
    \/ force_send
    \/ Truthy(record.fields.dossier_id) /\ record.fields.sync_mail # PyStr(Text_success)

\* the gate of get_records_to_process on one record (lines 543-559)
PassesGate(record, force_send) ==
    /\ Truthy(record.fields.dossier_id)
    /\ (force_send \/ record.fields.sync_mail # PyStr(Text_success))

\* response['records'] of a successful read: the rows in the table's order
StoredRecords == [id \in RecordIds |-> [id |-> id, fields |-> store[id]]]

\* get_records_to_process after a successful read (lines 528-562)
SelectRecords(all, filters, filter_logic, force_send) ==
    LET Gate(record) == PassesGate(record, force_send)
    IN  SelectSeq(apply_filters(all, filters, filter_logic), Gate)

Call(op, id, status, data) == [op |-> op, id |-> id, status |-> status, data |-> data]

NoData == [sync_mail |-> PyNone, sync_date |-> PyNone, sync_error |-> PyNone]

\* send_batch from get_records_to_process to the start of the loop
GetRecordsToProcess ==
    /\ pc = "select"
    /\ \E read \in {"ok", "error"} :
          \E selected \in {IF read = "error" THEN <<>>
                           ELSE SelectRecords(StoredRecords, config.filters,
                                              config.filter_logic, sender.force_send)} :
              /\ calls' = Append(calls, Call("get_records", 0, read, NoData))
              /\ IF read = "ok" /\ apply_filters_raises(StoredRecords, config.filters)
                 THEN pc' = "exited" /\ UNCHANGED <<records, i, results>>
                 ELSE IF selected = <<>>
                      THEN pc' = "done" /\ UNCHANGED <<records, i, results>>
                      ELSE /\ pc' = "loop"
                           /\ records' = selected
                           /\ i' = 1
                           /\ results' = [EmptyResults EXCEPT
                                             !.total_records = Len(selected)]
    /\ UNCHANGED <<store, config, env, runs, sender, outcomes, artifacts, store0,
                   okSends, acked, sentAfterAck, forced>>

\* lines 702-707: every non-empty field is tried as a date, and an
\* OverflowError of parse_date_value escapes
DateLogRaises(fields) ==
    \E name \in DOMAIN fields : Truthy(fields[name]) /\ parse_date_value(fields[name]).raised

\* faulty variant: the dry-run return is missing
DryRunReturnNever == FALSE

\* line 608: the dry-run return of send_message_to_record
DryRunReturn == sender.dry_run

\* line 642: the write-back is skipped in dry-run mode
WriteBackEnabled == ~sender.dry_run

\* error_msg[:500]
Truncate(error_msg) ==
    LET text == PyToStr(error_msg)
    IN  PyStr(SubSeq(text, 1, IF Len(text) < ErrorTextLimit THEN Len(text)
                              ELSE ErrorTextLimit))

\* lines 623-639: the fields written back for a response
UpdateData(resp) ==
    IF resp.kind = "success"
    THEN [sync_mail |-> PyStr(Text_success), sync_date |-> PyStr(NowText),
          sync_error |-> PyStr(<<>>)]
    ELSE [sync_mail |-> PyStr(Text_failure), sync_date |-> PyStr(NowText),
          sync_error |-> Truncate(resp.error)]

\* the data store applying a PATCH of one record
Patched(fields, data) ==
    [fields EXCEPT !.sync_mail = data.sync_mail, !.sync_date = data.sync_date,
                   !.sync_error = data.sync_error]

\* what send_message_to_record returns
DryResult == [success |-> TRUE, dry_run |-> TRUE, error |-> PyNone]

SendResult(resp) ==
    [success |-> resp.kind = "success", dry_run |-> FALSE, error |-> resp.error]

\* faulty variant: a failed send is counted without its detail entry
AggregateNoDetail(res, result, dossier_id, update) ==
    IF result.success
    THEN [res EXCEPT !.success_count = @ + 1]
    ELSE [res EXCEPT !.error_count = @ + 1]

\* faulty variant: a failed write-back is counted as an error
AggregateWriteBack(res, result, dossier_id, update) ==
    IF result.success /\ update \notin {"error", "empty"}
    THEN [res EXCEPT !.success_count = @ + 1]
    ELSE [res EXCEPT !.error_count = @ + 1,
                     !.details = Append(@, [dossier_id |-> dossier_id,
                                            error |-> result.error])]

\* lines 714-724: the result is counted, whatever the write-back answered
Aggregate(res, result, dossier_id, update) ==
    IF result.success
    THEN [res EXCEPT !.success_count = @ + 1]
    ELSE [res EXCEPT !.error_count = @ + 1,
                     !.details = Append(@, [dossier_id |-> dossier_id,
                                            error |-> result.error])]

\* the end of one iteration of the loop
IterationDone(record, result, update) ==
    /\ results' = Aggregate(results, result, record.fields.dossier_id, update)
    /\ outcomes' = Append(outcomes, [id |-> record.id, result |-> result,
                                     update |-> update])
    /\ i' = i + 1
    /\ pc' = IF i + 1 > Len(records) THEN "save" ELSE "loop"

\* one iteration of the loop of send_batch (lines 696-724), with
\* send_message_to_record (lines 592-657)
ProcessRecord ==
    /\ pc = "loop"
    /\ LET record == records[i]
           id == record.id
       IN  IF DateLogRaises(record.fields)
           THEN /\ pc' = "exited"
                /\ UNCHANGED <<store, results, outcomes, i, calls, okSends, acked,
                               sentAfterAck>>
           ELSE IF DryRunReturn
           THEN /\ IterationDone(record, DryResult, "none")
                /\ UNCHANGED <<store, calls, okSends, acked, sentAfterAck>>
           ELSE \E resp \in SendResponses :
                  /\ okSends' = [okSends EXCEPT
                                    ![id] = @ + (IF resp.kind = "success" THEN 1 ELSE 0)]
                  /\ sentAfterAck' = [sentAfterAck EXCEPT ![id] = @ \/ acked[id]]
                  /\ IF resp.kind = "malformed"
                     THEN /\ calls' = Append(calls,
                                             Call("send_message", id, resp.kind, NoData))
                          /\ pc' = "exited"
                          /\ UNCHANGED <<store, results, outcomes, i, acked>>
                     ELSE IF WriteBackEnabled
                     THEN \E update \in UpdateResponses :
                            /\ calls' = calls \o
                                 << Call("send_message", id, resp.kind, NoData),
                                    Call("update_record", id, update, UpdateData(resp)) >>
                            /\ store' = IF update = "error" THEN store
                                        ELSE [store EXCEPT
                                                ![id] = Patched(@, UpdateData(resp))]
                            /\ acked' = [acked EXCEPT
                                           ![id] = @ \/ (resp.kind = "success"
                                                         /\ update # "error")]
                            /\ IterationDone(record, SendResult(resp), update)
                     ELSE /\ calls' = Append(calls,
                                             Call("send_message", id, resp.kind, NoData))
                          /\ IterationDone(record, SendResult(resp), "none")
                          /\ UNCHANGED <<store, acked>>
    /\ UNCHANGED <<config, env, runs, sender, records, artifacts, store0, forced>>

\* lines 726-745: the results file is written and send_batch returns
SaveResults ==
    /\ pc = "save"
    /\ artifacts' = Append(artifacts, results)
    /\ pc' = "done"
    /\ UNCHANGED <<store, config, env, runs, sender, records, i, results, calls,
                   outcomes, store0, okSends, acked, sentAfterAck, forced>>

Next ==
    \/ Launch
    \/ SenderInit
    \/ ValidateConfig
    \/ GetRecordsToProcess
    \/ ProcessRecord
    \/ SaveResults

Spec == Init /\ [][Next]_vars

\* ------------------------------------------------------------------------
\* A second specification: apply_filters on its own, over drawn field
\* values, operators and operands
\* ------------------------------------------------------------------------

IsoDay == <<"2", "0", "2", "3", "-", "1", "2", "-", "2", "5">>

FilterFieldValues ==
    { PyNone, PyStr(<<>>), PyInt(<<"0">>), PyInt(<<"5">>), PyInt(<<"1", "2", "0">>),
      PyStr(<<"5">>), PyStr(<<" ", "7", " ">>), PyStr(<<"-", "3">>),
      PyStr(<<"a", "b", "c">>), PyStr(<<"A", "b", "c", " ", "5">>),
      PyStr(IsoDay), PyStr(<<"2", "5", "/", "1", "2", "/", "2", "0", "2", "3">>),
      PyInt(HugeNumber) }

FilterOperands ==
    { PyNone, PyStr(<<>>), PyStr(<<"5">>), PyStr(<<"1", "0", "0">>),
      PyStr(<<"a", "b", "c">>), PyStr(<<"-", "3">>), PyStr(IsoDay),
      PyStr(<<"2", "5", "/", "1", "2", "/", "2", "0", "2", "3">>),
      PyStr(IsoDay \o <<"|">> \o IsoDay), PyStr(IsoDay \o <<"|">>) }

FilterInit ==
    /\ \E v \in FilterFieldValues, operator \in OperatorNames,
          value \in FilterOperands, logic \in {"AND", "OR"} :
          /\ store = [id \in RecordIds |->
                         [InitialRow(id, "fresh") EXCEPT !.amount = v]]
          /\ config = [filters |-> <<[column |-> "amount", operator |-> operator,
                                     value |-> value]>>,
                       filter_logic |-> logic]
    /\ env = [fault |-> "none", dry_run |-> FALSE, force_send |-> FALSE]
    /\ runs = 0
    /\ pc = "filter"
    /\ sender = [dry_run |-> FALSE, force_send |-> FALSE]
    /\ records = <<>>
    /\ i = 0
    /\ results = EmptyResults
    /\ calls = <<>>
    /\ outcomes = <<>>
    /\ artifacts = <<>>
    /\ store0 = store
    /\ okSends = [id \in RecordIds |-> 0]
    /\ acked = [id \in RecordIds |-> FALSE]
    /\ sentAfterAck = [id \in RecordIds |-> FALSE]
    /\ forced = FALSE

\* apply_filters(records, filters, filter_logic) on the stored records
ApplyFilters ==
    /\ pc = "filter"
    /\ IF apply_filters_raises(StoredRecords, config.filters)
       THEN pc' = "exited" /\ UNCHANGED records
       ELSE /\ pc' = "filtered"
            /\ records' = apply_filters(StoredRecords, config.filters,
                                        config.filter_logic)
    /\ UNCHANGED <<store, config, env, runs, sender, i, results, calls, outcomes,
                   artifacts, store0, okSends, acked, sentAfterAck, forced>>

FilterNext == ApplyFilters

FilterSpec == FilterInit /\ [][FilterNext]_vars

\* ------------------------------------------------------------------------
\* A third specification: apply_filters over lists of filters, on records
\* that differ in the filtered field
\* ------------------------------------------------------------------------

MaxFilters == 2

ComposeValues ==
    { PyInt(<<"5">>), PyInt(<<"1", "2", "0">>), PyStr(<<"a", "b", "c">>), PyNone }

FilterOver100 ==
    [column |-> "amount", operator |-> "greater_than", value |-> PyStr(<<"1", "0", "0">>)]

FilterEmpty == [column |-> "amount", operator |-> "empty", value |-> PyNone]

FilterHasB == [column |-> "amount", operator |-> "contains", value |-> PyStr(<<"B">>)]

FilterNot5 == [column |-> "amount", operator |-> "not_equals", value |-> PyStr(<<"5">>)]

ComposeFilters == {FilterOver100, FilterEmpty, FilterHasB, FilterNot5}

\* the filter lists of the configurations drawn: none, one or several filters
FilterLists == UNION {[1..n -> ComposeFilters] : n \in 0..MaxFilters}

ComposeInit ==
    /\ \E values \in [RecordIds -> ComposeValues] :
          store = [id \in RecordIds |->
                      [InitialRow(id, "fresh") EXCEPT !.amount = values[id]]]
    /\ \E filters \in FilterLists, logic \in {"AND", "OR"} :
          config = [filters |-> filters, filter_logic |-> logic]
    /\ env = [fault |-> "none", dry_run |-> FALSE, force_send |-> FALSE]
    /\ runs = 0
    /\ pc = "filter"
    /\ sender = [dry_run |-> FALSE, force_send |-> FALSE]
    /\ records = <<>>
    /\ i = 0
    /\ results = EmptyResults
    /\ calls = <<>>
    /\ outcomes = <<>>
    /\ artifacts = <<>>
    /\ store0 = store
    /\ okSends = [id \in RecordIds |-> 0]
    /\ acked = [id \in RecordIds |-> FALSE]
    /\ sentAfterAck = [id \in RecordIds |-> FALSE]
    /\ forced = FALSE

ComposeNext == ApplyFilters

ComposeSpec == ComposeInit /\ [][ComposeNext]_vars

\* ------------------------------------------------------------------------
\* The claims
\* ------------------------------------------------------------------------

IsSuccess(v) == v = PyStr(Text_success)

\* the calls of one kind made for one record in this run, by position
CallsOf(op, id) == {k \in 1..Len(calls) : calls[k].op = op /\ calls[k].id = id}

\* the data store was read in this run and the selection was made
Selected ==
    /\ pc \in {"loop", "save", "done"}
    /\ calls # <<>>
    /\ calls[1].op = "get_records" /\ calls[1].status = "ok"

C2_SelectedIffFiltersAndGate ==
    Selected =>
      LET Matches(id) ==
              \/ config.filters = <<>>
              \/ RecordMatches([id |-> id, fields |-> store0[id]], config.filters,
                               config.filter_logic)
          Gate(record) ==
              /\ Truthy(record.fields.dossier_id)
              /\ (sender.force_send \/ ~IsSuccess(record.fields.sync_mail))
          all == [id \in RecordIds |-> [id |-> id, fields |-> store0[id]]]
      IN  /\ \A id \in RecordIds :
                (\E k \in 1..Len(records) : records[k].id = id)
                <=> ( /\ Matches(id)
                      /\ Truthy(store0[id].dossier_id)
                      /\ (sender.force_send \/ ~IsSuccess(store0[id].sync_mail)) )
          /\ \A k \in 1..Len(records) : records[k].fields = store0[records[k].id]
          /\ records = apply_filters(SelectSeq(all, Gate), config.filters,
                                     config.filter_logic)

\* with force set and filters configured, a record already marked
\* 'success' is selected while one without dossier_id is dropped
C2_Witness ==
    /\ Selected /\ sender.force_send /\ config.filters # <<>>
    /\ \E k \in 1..Len(records) : IsSuccess(records[k].fields.sync_mail)
    /\ \E id \in RecordIds : ~Truthy(store0[id].dossier_id)

\* C3, as stated: once the loop has started, no error in the processing of
\* a record ends the run.
C3_LoopNeverAborts ==
    ~(pc = "exited" /\ i >= 1)

\* C4: in dry-run mode every record processed returns the dry-run success,
\* no send_message and no update_record call is made, and the stored
\* fields are as they were when the run started.
C4_DryRunChangesNothing ==
    sender.dry_run =>
      /\ \A k \in 1..Len(outcomes) : outcomes[k].result = DryResult
      /\ \A k \in 1..Len(calls) : calls[k].op \notin {"send_message", "update_record"}
      /\ store = store0
      /\ pc \in {"save", "done"} =>
           /\ Len(outcomes) = Len(records)
           /\ \A k \in 1..Len(records) : outcomes[k].id = records[k].id

\* a dry run has ended after processing two records
C4_Witness ==
    sender.dry_run /\ pc = "done" /\ Len(outcomes) >= 2

\* C5, as stated: in a run that is not a dry run, a record gets at most one
\* send_message call, and each send_message call is followed at once by
\* the one update_record call of that record, carrying the send's outcome.
C5_OneSendThenOneWriteBack ==
    ~sender.dry_run =>
      \A id \in RecordIds :
        /\ Cardinality(CallsOf("send_message", id)) <= 1
        /\ Cardinality(CallsOf("update_record", id)) <= 1
        /\ \A k \in CallsOf("send_message", id) :
              /\ k + 1 \in CallsOf("update_record", id)
              /\ calls[k + 1].data.sync_mail =
                   (IF calls[k].status = "success" THEN PyStr(Text_success)
                    ELSE PyStr(Text_failure))
        /\ \A k \in CallsOf("update_record", id) : k - 1 \in CallsOf("send_message", id)

\* C6: a write-back that fails (an error or an empty response) leaves the
\* record counted by its send alone, adds nothing to the details but the
\* send's own error, and the loop goes on to the next record.
C6_WriteBackFailureIgnored ==
    [][ ( /\ pc = "loop"
          /\ Len(calls') = Len(calls) + 2
          /\ calls'[Len(calls')].op = "update_record"
          /\ calls'[Len(calls')].status \in {"error", "empty"} )
        => LET sent == calls'[Len(calls') - 1].status = "success"
           IN  /\ results'.success_count = results.success_count + (IF sent THEN 1 ELSE 0)
               /\ results'.error_count = results.error_count + (IF sent THEN 0 ELSE 1)
               /\ Len(results'.details) = results'.error_count
               /\ outcomes'[Len(outcomes')].result.success = sent
               /\ i' = i + 1
               /\ pc' = IF i' <= Len(records) THEN "loop" ELSE "save" ]_vars

\* the first record's send succeeded and its write-back failed; it was
\* counted as a success and the second record has been processed too
C6_Witness ==
    /\ Len(outcomes) >= 2
    /\ outcomes[1].update = "error" /\ outcomes[1].result.success
    /\ results.success_count >= 1 /\ results.error_count = 0

\* C7: with a configuration error (file missing or malformed, token
\* missing, required field missing) the process ends before the data store
\* is read and before any send_message or update_record call.
C7_ConfigErrorBeforeAnyCall ==
    env.fault # "none" =>
      /\ calls = <<>>
      /\ outcomes = <<>>
      /\ store = store0
      /\ pc \in {"init", "send_batch", "exited"}

\* a run whose configuration lacks a required field has exited
C7_Witness ==
    env.fault = "field_missing" /\ pc = "exited"

\* C8, as stated: every run that passes the validation and returns has
\* written exactly one result file, holding the final results.
C8_OneArtifactPerRun ==
    pc = "done" => Len(artifacts) = 1 /\ artifacts[1] = results

\* --- the claims about the filter predicates, under FilterSpec ---

TheFilter == config.filters[1]

TheValue == store[1].amount

Kept == Len(records) = NumRecords

\* C9, as stated: a filter with an unrecognized operator name keeps every
\* record, whatever the field value and the operand, also when the name
\* begins with 'date_'.
C9_UnknownOperatorIsTrue ==
    (pc = "filtered" /\ TheFilter.operator \in UnknownOperators) => Kept

\* the numbers that the drawn field values and operands stand for, written
\* out by hand: "zero" for an absent or empty side, "text" for a text that
\* is not a number
NumberTable ==
    << <<PyNone, "zero", 0>>, <<PyStr(<<>>), "zero", 0>>, <<PyInt(<<"0">>), "zero", 0>>,
       <<PyInt(<<"5">>), "num", 5>>, <<PyInt(<<"1", "2", "0">>), "num", 120>>,
       <<PyStr(<<"5">>), "num", 5>>, <<PyStr(<<" ", "7", " ">>), "num", 7>>,
       <<PyStr(<<"-", "3">>), "num", 0 - 3>>, <<PyStr(<<"1", "0", "0">>), "num", 100>>,
       <<PyStr(<<"a", "b", "c">>), "text", 0>>,
       <<PyStr(<<"A", "b", "c", " ", "5">>), "text", 0>>,
       <<PyStr(IsoDay), "text", 0>>,
       <<PyStr(<<"2", "5", "/", "1", "2", "/", "2", "0", "2", "3">>), "text", 0>>,
       <<PyStr(IsoDay \o <<"|">> \o IsoDay), "text", 0>> ,
       <<PyStr(IsoDay \o <<"|">>), "text", 0>> >>

Tabled(v) == \E k \in 1..Len(NumberTable) : NumberTable[k][1] = v

TableKind(v) == NumberTable[CHOOSE k \in 1..Len(NumberTable) : NumberTable[k][1] = v][2]

TableNumber(v) == NumberTable[CHOOSE k \in 1..Len(NumberTable) : NumberTable[k][1] = v][3]

NumericOperators == {"greater_than", "less_than", "greater_equal", "less_equal"}

Compares(operator, a, b) ==
    CASE operator = "greater_than"  -> a > b
      [] operator = "less_than"     -> a < b
      [] operator = "greater_equal" -> a >= b
      [] OTHER                      -> a <= b

NumericCase ==
    /\ pc = "filtered"
    /\ TheFilter.operator \in NumericOperators
    /\ Truthy(TheFilter.value)
    /\ Tabled(TheValue) /\ Tabled(TheFilter.value)

\* C10, as stated: with a non-empty operand the four numeric operators
\* compare the two sides as numbers, a side that is absent or is not a
\* number counting as zero.
C10_UnparseableIsZero ==
    NumericCase =>
      (Kept <=> Compares(TheFilter.operator, TableNumber(TheValue),
                         TableNumber(TheFilter.value)))

\* C10, amended: an absent or empty side counts as zero, and a side that
\* is a text which is not a number makes the predicate false.
C10_UnparseableIsFalse ==
    NumericCase =>
      (Kept <=> /\ TableKind(TheValue) # "text"
                /\ TableKind(TheFilter.value) # "text"
                /\ Compares(TheFilter.operator, TableNumber(TheValue),
                            TableNumber(TheFilter.value)))

\* the field 'abc' was tested with less_than against '5' and the record
\* was not kept
C10_Witness ==
    /\ pc = "filtered"
    /\ TheFilter.operator = "less_than"
    /\ TheFilter.value = PyStr(<<"5">>)
    /\ TheValue = PyStr(<<"a", "b", "c">>)
    /\ records = <<>>

\* --- retries across runs ---

\* the record, as the run found it in the data store, has a dossier_id, a
\* status other than 'success', and matches the configured filters
Eligible(id) ==
    /\ Truthy(store0[id].dossier_id)
    /\ ~IsSuccess(store0[id].sync_mail)
    /\ \/ config.filters = <<>>
       \/ RecordMatches([id |-> id, fields |-> store0[id]], config.filters,
                        config.filter_logic)

\* send_message_to_record got as far as the send, or returned, for the record
Dispatched(id) ==
    \/ \E k \in 1..Len(outcomes) : outcomes[k].id = id
    \/ CallsOf("send_message", id) # {}

\* the run has read the data store, with force unset, and is over
RunOverAfterRead ==
    /\ pc \in {"done", "exited"}
    /\ calls # <<>>
    /\ calls[1].op = "get_records" /\ calls[1].status = "ok"
    /\ ~sender.force_send
    /\ ~apply_filters_raises([id \in RecordIds |-> [id |-> id, fields |-> store0[id]]],
                             config.filters)

\* C11, as stated: a run with force unset dispatches every record that has
\* a dossier_id, a status other than 'success' (a send that failed in an
\* earlier run included) and matches the filters, and no record is sent to
\* twice within one run.
C11_FailedRecordDispatchedAgain ==
    /\ \A id \in RecordIds : Cardinality(CallsOf("send_message", id)) <= 1
    /\ RunOverAfterRead => \A id \in RecordIds : Eligible(id) => Dispatched(id)

\* --- the running totals ---

\* the outcomes of the failed records, in processing order
FailedOutcomes ==
    LET Failed(outcome) == ~outcome.result.success
    IN  SelectSeq(outcomes, Failed)

\* the dossier_id the loop read from the selected record with this id
SelectedDossier(id) ==
    records[CHOOSE k \in 1..Len(records) : records[k].id = id].fields.dossier_id

\* C12: once the loop has started, after every iteration success_count +
\* error_count is the number of records processed so far and details holds
\* one entry per failed record, in processing order; when the loop has
\* finished, success_count + error_count = total_records = the number of
\* selected records and len(details) = error_count.
C12_TotalsFollowTheLoop ==
    i >= 1 =>
      /\ Len(outcomes) = i - 1
      /\ results.success_count + results.error_count = Len(outcomes)
      /\ results.error_count = Len(FailedOutcomes)
      /\ results.total_records = Len(records)
      /\ Len(results.details) = Len(FailedOutcomes)
      /\ \A k \in 1..Len(FailedOutcomes) :
            /\ results.details[k].dossier_id = SelectedDossier(FailedOutcomes[k].id)
            /\ results.details[k].error = FailedOutcomes[k].result.error
      /\ pc \in {"save", "done"} =>
            /\ results.success_count + results.error_count = results.total_records
            /\ results.total_records = Len(records)
            /\ Len(results.details) = results.error_count

\* a run over two records has finished: the first send failed, the second
\* succeeded
C12_Witness ==
    /\ pc = "done" /\ Len(records) = 2 /\ Len(outcomes) = 2
    /\ ~outcomes[1].result.success /\ outcomes[2].result.success
    /\ results.error_count = 1 /\ results.success_count = 1

\* --- the composition of the filters, under ComposeSpec ---

\* the drawn predicates on the drawn values, worked out by hand: the pairs
\* of a field value and a filter for which the filter is true
TrueCases ==
    { <<PyInt(<<"1", "2", "0">>), FilterOver100>>,
      <<PyNone, FilterEmpty>>,
      <<PyStr(<<"a", "b", "c">>), FilterHasB>>,
      <<PyInt(<<"1", "2", "0">>), FilterNot5>>,
      <<PyStr(<<"a", "b", "c">>), FilterNot5>>,
      <<PyNone, FilterNot5>> }

Holds(id, k) == <<store[id].amount, config.filters[k]>> \in TrueCases

KeptRecord(id) == \E k \in 1..Len(records) : records[k].id = id

\* C13: apply_filters returns every record for an empty filter list; with
\* filters and logic AND it keeps a record exactly when every predicate is
\* true, with logic OR exactly when at least one is; the kept records are
\* the input records, in their input order.
C13_AndOrComposition ==
    pc = "filtered" =>
      /\ \A id \in RecordIds :
            KeptRecord(id) <=>
              CASE config.filters = <<>>       -> TRUE
                [] config.filter_logic = "AND" ->
                     \A k \in 1..Len(config.filters) : Holds(id, k)
                [] OTHER                       ->
                     \E k \in 1..Len(config.filters) : Holds(id, k)
      /\ \A k \in 1..Len(records) :
            records[k] = [id |-> records[k].id, fields |-> store[records[k].id]]
      /\ \A j, k \in 1..Len(records) : j < k => records[j].id < records[k].id

\* with logic OR and predicate results [true, false] a record was kept,
\* while another record, with no true predicate, was left out
C13_Witness ==
    /\ pc = "filtered" /\ config.filter_logic = "OR" /\ Len(config.filters) = 2
    /\ \E id \in RecordIds : Holds(id, 1) /\ ~Holds(id, 2) /\ KeptRecord(id)
    /\ \E id \in RecordIds : ~Holds(id, 1) /\ ~Holds(id, 2) /\ ~KeptRecord(id)

\* --- the date operators, under FilterSpec ---

DateOperators == {"date_before", "date_after", "date_on", "date_between"}

\* the drawn field values that are no date, a Unix timestamp or a date
\* text, worked out by hand (the 23-digit number is out of range)
NotADate ==
    { PyNone, PyStr(<<>>), PyInt(<<"0">>), PyStr(<<"-", "3">>),
      PyStr(<<"a", "b", "c">>), PyStr(<<"A", "b", "c", " ", "5">>), PyInt(HugeNumber) }

\* the drawn operands that are well formed for the operator: one ISO date,
\* or two ISO dates around '|' for date_between
WellFormedOperand(operator, value) ==
    IF operator = "date_between"
    THEN value = PyStr(IsoDay \o <<"|">> \o IsoDay)
    ELSE value = PyStr(IsoDay)

DateFailureCase ==
    /\ pc \in {"filtered", "exited"}
    /\ TheFilter.operator \in DateOperators
    /\ \/ TheValue \in NotADate
       \/ ~WellFormedOperand(TheFilter.operator, TheFilter.value)

\* C14, as stated: a date operator is false when the field value cannot be
\* normalized to a date, and false when the operand is malformed, the
\* empty operand included.
C14_DateFailureIsFalse ==
    DateFailureCase => pc = "filtered" /\ records = <<>>

\* --- the stored error text ---

\* the service's error messages as they should be stored: the short one
\* whole, the long one cut to its first 500 characters
CutLongError ==
    <<"E", "r", "r", "e", "u", "r", " ">> \o [k \in 1..(ErrorTextLimit - 7) |-> FillChar]

StoredErrorTexts == {ShortError, CutLongError}

\* the sync_error written back for every failed send is the message cut to
\* 500 characters
WrittenErrorIsCut ==
    \A k \in 1..Len(calls) :
        (calls[k].op = "update_record" /\ calls[k].data.sync_mail = PyStr(Text_failure))
        => PyToStr(calls[k].data.sync_error) \in StoredErrorTexts

\* C15, as stated: for every failed send, the sync_error written back and
\* the error carried by the record's outcome are the message cut to its
\* first 500 characters, a shorter message being kept whole.
C15_ErrorTextCutTo500 ==
    /\ WrittenErrorIsCut
    /\ \A k \in 1..Len(outcomes) :
          ~outcomes[k].result.success
          => PyToStr(outcomes[k].result.error) \in StoredErrorTexts
    /\ \A k \in 1..Len(results.details) :
          PyToStr(results.details[k].error) \in StoredErrorTexts

====
